---- MODULE Spec2Model ----
(***************************************************************************)
(* A model of magic_pdf/model/operators.py: the InferenceResult class.     *)
(*                                                                         *)
(* The inference sequence is a Python list of per-page records, so the     *)
(* model keeps a heap: `lists` maps a list identity to the identities of   *)
(* the records it holds, `recs` maps a record identity to its content.     *)
(* Aliasing, shallow and deep copies are then different things.            *)
(***************************************************************************)
EXTENDS Integers, Sequences, FiniteSets, TLC

\* ---- bounds ------------------------------------------------------------
MaxLen == 2        \* longest inference sequence (pages)
NThreads == 2      \* threads calling into one InferenceResult
MaxPathLen == 3    \* longest output path, in characters
MaxPage == 1       \* largest page id a caller passes

\* ---- the heap ----------------------------------------------------------
Threads == 1..NThreads
Main == CHOOSE t \in Threads : \A u \in Threads : t <= u
Stored == 0                     \* identity of the list held in self._infer_res
Caller == NThreads + 1          \* owner of the records the caller allocates
Owners == 0..(NThreads + 1)
Categories == {"text", "image"} \* content of one per-page record
Blank == "text"                 \* content of a record slot nobody references
RecId == Owners \X (1..MaxLen)
Contents == UNION {[1..n -> Categories] : n \in 0..MaxLen}

VARIABLES
  lists,      \* [Owners -> Seq(RecId)]: the list objects
  recs,       \* [RecId -> Categories]: the record objects
  original,   \* content of the sequence given to __init__
  docClass,   \* what classify(self._dataset.data_bits()) does for this dataset
  dirs,       \* the directories of the file system
  pc,         \* per thread: "idle" or "proc" (inside the external procedure)
  held,       \* per thread: the list the external procedure was handed
  call,       \* per thread: the current (or last finished) call
  callerRef   \* the reference get_infer_res returned to the caller, if any

vars == <<lists, recs, original, docClass, dirs, pc, held, call, callerRef>>

Range(s) == {s[i] : i \in 1..Len(s)}
Heap == [lists |-> lists, recs |-> recs]
ContentIn(h, l) == [i \in 1..Len(h.lists[l]) |-> h.recs[h.lists[l][i]]]
Content(l) == ContentIn(Heap, l)
UsedIn(ls) == UNION {Range(ls[o]) : o \in Owners}

\* copy.deepcopy: every record of the list is cloned into a fresh record
copy_elems(l, t) == lists[l]
deepcopy_elems(l, t) == [i \in 1..Len(lists[l]) |-> <<t, i>>]

blank_value(l, i) == Blank
deepcopy_value(l, i) == recs[lists[l][i]]

deepcopy(l, t) ==
  [lists |-> [lists EXCEPT ![t] = deepcopy_elems(l, t)],
   recs  |-> [r \in RecId |->
                IF r[1] = t /\ r[2] <= Len(lists[l])
                THEN deepcopy_value(l, r[2]) ELSE recs[r]]]

\* the copy becomes garbage when the call returns
Release(t) ==
  LET ls == [lists EXCEPT ![t] = <<>>] IN
  [lists |-> ls,
   recs  |-> [r \in RecId |->
                IF r[1] = t /\ r \notin UsedIn(ls) THEN Blank ELSE recs[r]]]

\* what a holder of list l can do to it: write a record, drop the last
\* record, append a new record (allocated in the area of owner o)
SetField(l) ==
  {[lists |-> lists, recs |-> [recs EXCEPT ![lists[l][i]] = v]] :
     <<i, v>> \in {x \in (1..Len(lists[l])) \X Categories :
                     recs[lists[l][x[1]]] # x[2]}}

PopLast(l) ==
  IF Len(lists[l]) = 0 THEN {}
  ELSE LET n  == Len(lists[l])
           ls == [lists EXCEPT ![l] = SubSeq(lists[l], 1, n - 1)]
           r  == lists[l][n]
       IN {[lists |-> ls,
            recs  |-> IF r \in UsedIn(ls) THEN recs
                      ELSE [recs EXCEPT ![r] = Blank]]}

Push(l, o) ==
  LET free == {k \in 1..MaxLen : <<o, k>> \notin UsedIn(lists)} IN
  IF Len(lists[l]) >= MaxLen \/ free = {} THEN {}
  ELSE LET k == CHOOSE x \in free : \A y \in free : x <= y IN
       {[lists |-> [lists EXCEPT ![l] = Append(lists[l], <<o, k>>)],
         recs  |-> [recs EXCEPT ![<<o, k>>] = v]] : v \in Categories}

Mutations(l, o) == SetField(l) \cup PopLast(l) \cup Push(l, o)

\* ---- paths and the file system ------------------------------------------
Chars == {"/", "a"}
Paths == UNION {[1..n -> Chars] : n \in 1..MaxPathLen}

LastSlash(p) ==
  LET S == {i \in 1..Len(p) : p[i] = "/"} IN
  IF S = {} THEN 0 ELSE CHOOSE i \in S : \A j \in S : j <= i

AllSlash(s) == \A i \in 1..Len(s) : s[i] = "/"

RECURSIVE rstrip(_)
rstrip(s) ==
  IF s # <<>> /\ s[Len(s)] = "/" THEN rstrip(SubSeq(s, 1, Len(s) - 1)) ELSE s

\* posixpath.dirname / posixpath.basename
dirname(p) ==
  LET head == SubSeq(p, 1, LastSlash(p)) IN
  IF head # <<>> /\ ~AllSlash(head) THEN rstrip(head) ELSE head

basename(p) == SubSeq(p, LastSlash(p) + 1, Len(p))

\* the directory a path names: its non-empty components (the working
\* directory is the root, so relative and absolute paths resolve alike)
RECURSIVE Resolve(_)
Resolve(p) ==
  IF p = <<>> THEN <<>>
  ELSE LET k    == LastSlash(p)
           last == SubSeq(p, k + 1, Len(p))
           rest == SubSeq(p, 1, k - 1)
       IN IF last = <<>> THEN Resolve(rest) ELSE Append(Resolve(rest), last)

Prefixes(c) == {SubSeq(c, 1, k) : k \in 0..Len(c)}

\* os.path.exists: the empty path names nothing
exists(p) == p # <<>> /\ Resolve(p) \in dirs

\* os.makedirs(name, exist_ok=True): creates the directory and its missing
\* parents; mkdir('') raises FileNotFoundError
makedirs(name) ==
  IF name = <<>> THEN [ok |-> FALSE, dirs |-> dirs]
  ELSE [ok |-> TRUE, dirs |-> dirs \cup Prefixes(Resolve(name))]

\* ---- arguments, mappings, results ---------------------------------------
None == <<>>                    \* Python None; a present value v is <<v>>
Writers == {"w1", "w2"}
PageIds == 0..MaxPage
Langs == {None, <<"en">>}

NoArgs ==
  [imageWriter |-> "none", start_page_id |-> 0, end_page_id |-> None,
   debug_mode |-> FALSE, lang |-> None, file_path |-> <<>>]

\* every argument tuple a caller can give a pipe-mode operation
PipeArgs ==
  {[NoArgs EXCEPT !.imageWriter = w, !.start_page_id = s, !.end_page_id = e,
                  !.debug_mode = d, !.lang = g] :
     w \in Writers, s \in PageIds, e \in {None} \cup {<<x>> : x \in PageIds},
     d \in BOOLEAN, g \in Langs}

\* a call that leaves every optional parameter at its default
DefaultArgs == {[NoArgs EXCEPT !.imageWriter = w] : w \in {"w1"}}

PARSE_TYPE_TXT == "txt"
PARSE_TYPE_OCR == "ocr"
version == "1.0.0"

Keys == {"pdf_info", "_parse_type", "_version_name",
         "parse_type", "version_name", "lang"}
EmptyMapping == [k \in Keys |-> None]

\* the mappings pdf_parse_union can return: the parsed pages, with or
\* without stale values under the keys the closure sets afterwards
RawMappings ==
  {[EmptyMapping EXCEPT !["pdf_info"] = <<"pages">>],
   [EmptyMapping EXCEPT !["pdf_info"] = <<"pages">>,
                        !["_parse_type"] = <<"stale">>,
                        !["_version_name"] = <<"stale">>]}

PipeResult(res, dataset) == [res |-> res, dataset |-> dataset]

\* ---- a call --------------------------------------------------------------
TXT == "TXT"                    \* SupportedPdfParseMethod.TXT
OCR == "OCR"                    \* SupportedPdfParseMethod.OCR
DocClasses == {TXT, OCR, "UNSUPPORTED", "RAISES"}
Dataset == "dataset"            \* self._dataset

NoCall ==
  [op |-> "none", args |-> NoArgs, mode |-> "none",
   nClassify |-> 0, nExtract |-> 0, nRender |-> 0,
   xargs |-> <<>>, rargs |-> <<>>, handed |-> <<>>, storedAtCall |-> <<>>,
   dirExisted |-> TRUE, outcome |-> "none", error |-> "none",
   raw |-> <<>>, result |-> <<>>]

\* the record of a call that starts now
NewCall(op, a) == [NoCall EXCEPT !.op = op, !.args = a, !.outcome = "running"]

Finish(t, c) ==
  LET h == Release(t) IN
  /\ lists' = h.lists
  /\ recs' = h.recs
  /\ held' = [held EXCEPT ![t] = Stored]
  /\ pc' = [pc EXCEPT ![t] = "idle"]
  /\ call' = [call EXCEPT ![t] = c]

\* ---- InferenceResult ------------------------------------------------------
\* the list apply hands to proc: the deep copy it has just made
apply_alias(t) == Stored
apply_arg(t) == t

\* apply(proc, *args, **kwargs): proc(copy.deepcopy(self._infer_res), ...)
apply(t, c) ==
  LET h   == deepcopy(Stored, t)
      arg == apply_arg(t)
  IN /\ lists' = h.lists
     /\ recs' = h.recs
     /\ held' = [held EXCEPT ![t] = arg]
     /\ pc' = [pc EXCEPT ![t] = "proc"]
     /\ call' = [call EXCEPT ![t] =
                   [c EXCEPT !.handed = <<ContentIn(h, arg)>>,
                             !.storedAtCall = <<Content(Stored)>>]]

\* what pdf_parse_union is called with: apply puts the copy first, the
\* mode operation supplies the rest
ExtractArgsDefaultStart(l, strategy, a) ==
  [infer |-> l, dataset |-> Dataset, imageWriter |-> a.imageWriter,
   strategy |-> strategy, start_page_id |-> 0,
   end_page_id |-> a.end_page_id, debug_mode |-> a.debug_mode,
   lang |-> a.lang]
ExtractArgs(l, strategy, a) ==
  [infer |-> l, dataset |-> Dataset, imageWriter |-> a.imageWriter,
   strategy |-> strategy, start_page_id |-> a.start_page_id,
   end_page_id |-> a.end_page_id, debug_mode |-> a.debug_mode,
   lang |-> a.lang]

pipe_txt_mode(t, c) ==
  apply(t, [c EXCEPT !.mode = "txt", !.nExtract = 1,
                     !.xargs = <<ExtractArgs(apply_arg(t), TXT, c.args)>>])

pipe_ocr_mode(t, c) ==
  apply(t, [c EXCEPT !.mode = "ocr", !.nExtract = 1,
                     !.xargs = <<ExtractArgs(apply_arg(t), OCR, c.args)>>])

\* the branch of pipe_auto_mode
auto_dispatch_swapped(pdf_proc_method) ==
  IF pdf_proc_method = TXT THEN "ocr" ELSE "txt"
auto_dispatch(pdf_proc_method) ==
  IF pdf_proc_method = TXT THEN "txt" ELSE "ocr"

\* the closures of pipe_txt_mode and pipe_ocr_mode, after pdf_parse_union
\* has returned res
ParseType(mode) == IF mode = "txt" THEN PARSE_TYPE_TXT ELSE PARSE_TYPE_OCR

proc_tags_setdefault(mode, res) ==
  [res EXCEPT !["_parse_type"] = IF @ = None THEN <<ParseType(mode)>> ELSE @,
              !["_version_name"] = IF @ = None THEN <<version>> ELSE @]
proc_tags(mode, res) ==
  [res EXCEPT !["_parse_type"] = <<ParseType(mode)>>,
              !["_version_name"] = <<version>>]

proc_lang_always(kwargs, res) ==
  [res EXCEPT !["lang"] = IF kwargs.lang = None THEN <<"None">> ELSE kwargs.lang]
proc_lang(kwargs, res) ==
  IF kwargs.lang # None THEN [res EXCEPT !["lang"] = kwargs.lang] ELSE res

proc(mode, kwargs, res) ==
  PipeResult(proc_lang(kwargs, proc_tags(mode, res)), Dataset)

\* ---- the operations -------------------------------------------------------
ApplyCall(t) ==
  /\ pc[t] = "idle"
  /\ apply(t, NewCall("apply", NoArgs))
  /\ UNCHANGED <<original, docClass, dirs, callerRef>>

PipeTxtCall(t, A) ==
  /\ pc[t] = "idle"
  /\ \E a \in A : pipe_txt_mode(t, NewCall("txt", a))
  /\ UNCHANGED <<original, docClass, dirs, callerRef>>

PipeOcrCall(t, A) ==
  /\ pc[t] = "idle"
  /\ \E a \in A : pipe_ocr_mode(t, NewCall("ocr", a))
  /\ UNCHANGED <<original, docClass, dirs, callerRef>>

PipeAutoCall(t, A) ==
  /\ pc[t] = "idle"
  /\ \E a \in A :
       LET c == [NewCall("auto", a) EXCEPT !.nClassify = 1] IN
       IF docClass = "RAISES"
       THEN /\ call' = [call EXCEPT ![t] =
                          [c EXCEPT !.outcome = "raised",
                                    !.error = "ClassifyError"]]
            /\ UNCHANGED <<lists, recs, held, pc>>
       ELSE IF auto_dispatch(docClass) = "txt"
            THEN pipe_txt_mode(t, c)
            ELSE pipe_ocr_mode(t, c)
  /\ UNCHANGED <<original, docClass, dirs, callerRef>>

\* the list draw_model hands to draw_model_bbox
draw_model_alias(t) == Stored
draw_model_arg(t) == t

DrawModelCall(t, P) ==
  /\ pc[t] = "idle"
  /\ \E file_path \in P :
       LET dir_name  == dirname(file_path)
           base_name == basename(file_path)
           made      == makedirs(dir_name)
           c0 == [NewCall("draw", [NoArgs EXCEPT !.file_path = file_path])
                    EXCEPT !.dirExisted = exists(dir_name)]
           h   == deepcopy(Stored, t)
           arg == draw_model_arg(t)
       IN IF ~exists(dir_name) /\ ~made.ok
          THEN /\ call' = [call EXCEPT ![t] =
                             [c0 EXCEPT !.outcome = "raised",
                                        !.error = "FileNotFoundError"]]
               /\ UNCHANGED <<lists, recs, held, pc, dirs>>
          ELSE /\ dirs' = IF exists(dir_name) THEN dirs ELSE made.dirs
               /\ lists' = h.lists
               /\ recs' = h.recs
               /\ held' = [held EXCEPT ![t] = arg]
               /\ pc' = [pc EXCEPT ![t] = "proc"]
               /\ call' = [call EXCEPT ![t] =
                    [c0 EXCEPT !.nRender = 1,
                               !.rargs = <<[infer |-> arg, dataset |-> Dataset,
                                            dir_name |-> dir_name,
                                            base_name |-> base_name]>>,
                               !.handed = <<ContentIn(h, arg)>>,
                               !.storedAtCall = <<Content(Stored)>>]]
  /\ UNCHANGED <<original, docClass, callerRef>>

\* ---- the external procedures ----------------------------------------------
\* the procedure mutates the list it was handed
ProcMutate(t) ==
  /\ pc[t] = "proc"
  /\ \E h \in Mutations(held[t], t) : lists' = h.lists /\ recs' = h.recs
  /\ UNCHANGED <<original, docClass, dirs, pc, held, call, callerRef>>

\* pdf_parse_union returns a mapping; the closure annotates and wraps it
PdfParseUnionReturn(t) ==
  /\ pc[t] = "proc"
  /\ call[t].op \in {"txt", "ocr", "auto"}
  /\ \E res \in RawMappings :
       Finish(t, [call[t] EXCEPT
                    !.outcome = "returned",
                    !.raw = <<res>>,
                    !.result = <<proc(call[t].mode, call[t].xargs[1], res)>>])
  /\ UNCHANGED <<original, docClass, dirs, callerRef>>

\* the procedure given to apply, or draw_model_bbox, returns
ProcReturn(t) ==
  /\ pc[t] = "proc"
  /\ call[t].op \in {"apply", "draw"}
  /\ Finish(t, [call[t] EXCEPT !.outcome = "returned"])
  /\ UNCHANGED <<original, docClass, dirs, callerRef>>

\* the procedure raises; nothing in the class catches it
ProcRaise(t) ==
  /\ pc[t] = "proc"
  /\ Finish(t, [call[t] EXCEPT !.outcome = "raised", !.error = "ProcError"])
  /\ UNCHANGED <<original, docClass, dirs, callerRef>>

\* ---- the caller and the live reference --------------------------------------
get_infer_res == Stored

GetInferRes ==
  /\ callerRef = <<>>
  /\ callerRef' = <<get_infer_res>>
  /\ UNCHANGED <<lists, recs, original, docClass, dirs, pc, held, call>>

\* between two calls, the caller mutates the structure get_infer_res returned
CallerMutate ==
  /\ callerRef # <<>>
  /\ \A t \in Threads : pc[t] = "idle"
  /\ \E h \in Mutations(callerRef[1], Caller) : lists' = h.lists /\ recs' = h.recs
  /\ UNCHANGED <<original, docClass, dirs, pc, held, call, callerRef>>

\* ---- specifications ---------------------------------------------------------
\* __init__(inference_results, dataset)
InitWith(C, Cs) ==
  /\ \E o \in Cs :
       /\ original = o
       /\ lists = [w \in Owners |->
                     IF w = Stored THEN [i \in 1..Len(o) |-> <<Stored, i>>]
                     ELSE <<>>]
       /\ recs = [r \in RecId |->
                    IF r[1] = Stored /\ r[2] <= Len(o) THEN o[r[2]] ELSE Blank]
  /\ docClass \in C
  /\ dirs = {<<>>}
  /\ pc = [t \in Threads |-> "idle"]
  /\ held = [t \in Threads |-> Stored]
  /\ call = [t \in Threads |-> NoCall]
  /\ callerRef = <<>>

Init == InitWith(DocClasses, Contents)

\* the sequences of image records, one of each length, and the longest
ImageContents == {o \in Contents : \A i \in 1..Len(o) : o[i] = "image"}
LongContents == {o \in ImageContents : Len(o) = MaxLen}

\* one caller, one call after the other
OutPaths == {<<"a", "/", "a">>}

Next ==
  \E t \in {Main} :
    \/ ApplyCall(t)
    \/ PipeTxtCall(t, DefaultArgs)
    \/ PipeOcrCall(t, DefaultArgs)
    \/ PipeAutoCall(t, DefaultArgs)
    \/ DrawModelCall(t, OutPaths)
    \/ ProcMutate(t)
    \/ PdfParseUnionReturn(t)
    \/ ProcReturn(t)
    \/ ProcRaise(t)

Spec == Init /\ [][Next]_vars

\* one caller, the pipe-mode operations with every argument tuple
NextArgs ==
  \E t \in {Main} :
    \/ PipeTxtCall(t, PipeArgs)
    \/ PipeOcrCall(t, PipeArgs)
    \/ PipeAutoCall(t, PipeArgs)
    \/ PdfParseUnionReturn(t)
    \/ ProcRaise(t)

SpecArgs == InitWith(DocClasses, ImageContents) /\ [][NextArgs]_vars

\* one caller, draw_model with every output path
NextDraw ==
  \E t \in {Main} :
    \/ DrawModelCall(t, Paths)
    \/ ProcMutate(t)
    \/ ProcReturn(t)
    \/ ProcRaise(t)

SpecDraw == InitWith({TXT}, Contents) /\ [][NextDraw]_vars

\* independent threads against the same InferenceResult
NextConc ==
  \E t \in Threads :
    \/ PipeTxtCall(t, DefaultArgs)
    \/ PipeOcrCall(t, DefaultArgs)
    \/ DrawModelCall(t, OutPaths)
    \/ ProcMutate(t)
    \/ PdfParseUnionReturn(t)
    \/ ProcReturn(t)
    \/ ProcRaise(t)

SpecConc == InitWith({TXT}, LongContents) /\ [][NextConc]_vars

\* one caller that also keeps the reference get_infer_res returns
NextAccessor ==
  \/ GetInferRes
  \/ CallerMutate
  \/ \E t \in {Main} :
       \/ PipeTxtCall(t, DefaultArgs)
       \/ ProcMutate(t)
       \/ PdfParseUnionReturn(t)
       \/ ProcRaise(t)

SpecAccessor == InitWith({TXT}, Contents) /\ [][NextAccessor]_vars

\* ---- properties -------------------------------------------------------------
StoredRefs == [i \in 1..Len(original) |-> <<Stored, i>>]
StoredIntact == lists[Stored] = StoredRefs /\ Content(Stored) = original
PipeOps == {"txt", "ocr", "auto"}

\* C1: whatever the procedures do to the sequence they are handed, the
\* stored sequence keeps the content given at construction, and every call
\* of apply, of a pipe mode or of draw_model hands its procedure a sequence
\* equal in content to that original.
C1_Isolation ==
  /\ StoredIntact
  /\ \A t \in Threads :
       call[t].handed # <<>> => call[t].handed = <<original>>

\* a procedure has changed the content of the sequence it was handed
C1_Witness ==
  \E t \in Threads :
    /\ pc[t] = "proc"
    /\ call[t].op \in {"apply", "auto", "draw"}
    /\ Len(original) > 0
    /\ Content(held[t]) # original

\* C2 as stated: after the caller has mutated the structure get_infer_res
\* returned, pipe_txt_mode still hands its extraction procedure the content
\* it would have handed without the mutation.
C2_Original ==
  \A t \in Threads :
    (callerRef # <<>> /\ call[t].op = "txt" /\ call[t].handed # <<>>)
      => call[t].handed = <<original>>

\* C2 amended: get_infer_res returns the stored list itself, so pipe_txt_mode
\* hands its extraction procedure a copy of the stored sequence as the caller
\* left it; what the extraction procedure does to that copy never reaches
\* the stored sequence.
C2_LiveReference ==
  \A t \in Threads :
    (call[t].op = "txt" /\ call[t].handed # <<>>)
      => /\ call[t].handed = call[t].storedAtCall
         /\ pc[t] = "proc" => <<Content(Stored)>> = call[t].storedAtCall

\* a pipe_txt_mode call that sees the caller's mutation
C2_Witness ==
  \E t \in Threads :
    /\ callerRef = <<Stored>>
    /\ pc[t] = "proc"
    /\ call[t].op = "txt"
    /\ call[t].handed # <<original>>
    /\ Content(held[t]) # call[t].handed[1]

\* C3: pipe_auto_mode consults the classifier once and runs exactly one mode
\* operation; on a document labelled TEXT it calls the extraction procedure
\* and builds its result exactly as pipe_txt_mode does with the same
\* arguments, on a document labelled OCR exactly as pipe_ocr_mode does.
C3_AutoDispatch ==
  \A t \in Threads :
    (call[t].op = "auto" /\ docClass \in {TXT, OCR}) =>
      LET c    == call[t]
          mode == IF docClass = TXT THEN "txt" ELSE "ocr"
          kw   == [infer |-> t, dataset |-> Dataset,
                   imageWriter |-> c.args.imageWriter, strategy |-> docClass,
                   start_page_id |-> c.args.start_page_id,
                   end_page_id |-> c.args.end_page_id,
                   debug_mode |-> c.args.debug_mode, lang |-> c.args.lang]
      IN /\ c.nClassify = 1
         /\ c.nExtract = 1
         /\ c.mode = mode
         /\ c.xargs = <<kw>>
         /\ c.outcome = "returned" => c.result = <<proc(mode, kw, c.raw[1])>>

C3_Witness ==
  \E t \in Threads :
    /\ call[t].op = "auto"
    /\ docClass = TXT
    /\ call[t].outcome = "returned"
    /\ call[t].args.lang # None
    /\ call[t].args.end_page_id # None

\* C4 as stated: the mapping of every returned PipeResult has parse_type
\* "txt" (pipe_txt_mode) or "ocr" (pipe_ocr_mode) and version_name equal to
\* the version string.
C4_Original ==
  \A t \in Threads :
    (call[t].outcome = "returned" /\ call[t].mode \in {"txt", "ocr"}) =>
      /\ call[t].result[1].res["parse_type"] = <<call[t].mode>>
      /\ call[t].result[1].res["version_name"] = <<version>>

\* C4 amended: the closure writes the keys _parse_type and _version_name:
\* _parse_type is "txt" resp. "ocr" and _version_name is the version string
\* whatever the extraction procedure had put under them; the keys parse_type
\* and version_name are left as the extraction procedure returned them.
C4_Tags ==
  \A t \in Threads :
    (call[t].outcome = "returned" /\ call[t].mode \in {"txt", "ocr"}) =>
      LET res == call[t].result[1].res IN
      /\ res["_parse_type"] = <<call[t].mode>>
      /\ res["_version_name"] = <<version>>
      /\ res["parse_type"] = call[t].raw[1]["parse_type"]
      /\ res["version_name"] = call[t].raw[1]["version_name"]
      /\ res["pdf_info"] = call[t].raw[1]["pdf_info"]

\* a stale tag has been overwritten
C4_Witness ==
  \E t \in Threads :
    /\ call[t].outcome = "returned"
    /\ call[t].op = "ocr"
    /\ call[t].raw[1]["_parse_type"] = <<"stale">>
    /\ call[t].result[1].res["_parse_type"] = <<"ocr">>

\* C5: the mapping of every returned PipeResult has no lang key when lang was
\* omitted or None, and has lang equal to v when a non-null v was supplied.
C5_Lang ==
  \A t \in Threads :
    (call[t].outcome = "returned" /\ call[t].op \in PipeOps) =>
      call[t].result[1].res["lang"] = call[t].args.lang

C5_Witness ==
  \E t \in Threads :
    /\ call[t].outcome = "returned"
    /\ call[t].op = "auto"
    /\ call[t].args.lang = None
    /\ call[t].result[1].res["lang"] = None
    /\ call[t].result[1].res["_parse_type"] # None

\* C6 as stated: when the classifier raises or returns a value that is
\* neither TEXT nor OCR, pipe_auto_mode ends with the classification error,
\* the extraction procedure is never invoked and no PipeResult is returned.
C6_ClassificationFailure ==
  \A t \in Threads :
    (call[t].op = "auto" /\ docClass \notin {TXT, OCR}) =>
      /\ call[t].outcome = "raised"
      /\ call[t].error = "ClassifyError"
      /\ call[t].nExtract = 0
      /\ call[t].result = <<>>

\* C7: when the extraction procedure raises, that error reaches the caller,
\* no PipeResult and no annotated mapping exists, the stored sequence is
\* unchanged, and the next call, to a different pipe mode, hands its
\* extraction procedure content equal to the original.
C7_Step ==
  \A t \in Threads :
    /\ (pc[t] = "proc" /\ call[t].mode # "none" /\ call'[t].outcome = "raised")
         => /\ call'[t].error = "ProcError"
            /\ call'[t].result = <<>>
            /\ call'[t].raw = <<>>
            /\ lists'[Stored] = StoredRefs
            /\ ContentIn([lists |-> lists', recs |-> recs'], Stored) = original
    /\ (pc[t] = "idle" /\ call[t].error = "ProcError" /\ pc'[t] = "proc"
          /\ call[t].mode # "none" /\ call'[t].mode \notin {"none", call[t].mode})
         => call'[t].handed = <<original>>

C7_ExtractionFailure == [][C7_Step]_vars

\* the extraction procedure has raised
C7_Witness ==
  \E t \in Threads :
    /\ pc[t] = "idle"
    /\ call[t].op = "txt"
    /\ call[t].error = "ProcError"
    /\ call[t].result = <<>>
    /\ Len(original) > 0

\* C8: under every interleaving of pipe_txt_mode, pipe_ocr_mode and
\* draw_model calls from independent threads, the stored sequence is never
\* written, no procedure is handed the stored list or one of its records, no
\* two running procedures share a list or a record, and each was handed
\* content equal to the original.
C8_Concurrent ==
  /\ StoredIntact
  /\ \A t \in Threads :
       pc[t] = "proc" =>
         /\ held[t] # Stored
         /\ Range(lists[held[t]]) \cap Range(lists[Stored]) = {}
         /\ call[t].handed = <<original>>
         /\ \A u \in Threads \ {t} :
              pc[u] = "proc" =>
                /\ held[u] # held[t]
                /\ Range(lists[held[u]]) \cap Range(lists[held[t]]) = {}

\* two procedures run at once and one has mutated its copy
C8_Witness ==
  \E t, u \in Threads :
    /\ t # u
    /\ pc[t] = "proc" /\ pc[u] = "proc"
    /\ call[t].op = "draw" /\ call[u].op = "txt"
    /\ Content(held[t]) # original
    /\ Content(held[u]) = original

\* C9: a pipe_txt_mode / pipe_ocr_mode call invokes the extraction procedure
\* once, with the isolated copy, the dataset, the caller's imageWriter, the
\* mode's own strategy and the caller's start_page_id, end_page_id (None when
\* omitted), debug_mode and lang as given.
C9_ArgumentsPassedOn ==
  \A t \in Threads :
    call[t].op \in {"txt", "ocr"} =>
      LET c == call[t] IN
      /\ c.nExtract = 1
      /\ c.nClassify = 0
      /\ c.handed = <<original>>
      /\ c.xargs =
           <<[infer |-> t, dataset |-> Dataset,
              imageWriter |-> c.args.imageWriter,
              strategy |-> IF c.op = "txt" THEN TXT ELSE OCR,
              start_page_id |-> c.args.start_page_id,
              end_page_id |-> c.args.end_page_id,
              debug_mode |-> c.args.debug_mode, lang |-> c.args.lang]>>
      /\ pc[t] = "proc" => held[t] = c.xargs[1].infer /\ held[t] # Stored

\* an empty page window with the end omitted on the same call is impossible,
\* so the witness takes the omitted end with a start past the first page
C9_Witness ==
  \E t \in Threads :
    /\ pc[t] = "proc"
    /\ call[t].op = "ocr"
    /\ call[t].args.start_page_id = MaxPage
    /\ call[t].args.end_page_id = None
    /\ call[t].xargs[1].end_page_id = None
    /\ call[t].args.imageWriter = "w2"

\* C10 as stated: when the directory part of output_path does not exist,
\* draw_model creates it, does not raise, and calls the renderer once with a
\* deep copy, the dataset, the directory part and the file-name part; when it
\* exists the renderer is called the same way.
C10_DrawModel ==
  \A t \in Threads :
    call[t].op = "draw" =>
      LET c == call[t]
          d == dirname(c.args.file_path)
      IN /\ c.error # "FileNotFoundError"
         /\ c.nRender = 1
         /\ c.handed = <<original>>
         /\ c.rargs = <<[infer |-> t, dataset |-> Dataset, dir_name |-> d,
                         base_name |-> basename(c.args.file_path)]>>
         /\ ~c.dirExisted => Resolve(d) \in dirs

====
